---- MODULE Spec2Model ----
(***************************************************************************)
(* Model of the book catalog client (src/index.js): the cache-backed       *)
(* Loader fetchAndDisplayBooks, the create handler handleBookFormSubmit,   *)
(* the delete handler deleteBook and the click listener that starts it,    *)
(* together with the remote store and the network they talk to.            *)
(*                                                                         *)
(* Every handler is an async function: the code between two awaits runs    *)
(* without interruption on the single-threaded event loop, so each such    *)
(* stretch is one action.  Both awaits of one request (fetch, then         *)
(* response.json()) touch no state between them and are one step.          *)
(***************************************************************************)
EXTENDS Naturals, Sequences, FiniteSets, TLC

VARIABLES
    remote,         \* the remote store's list of book records
    issued,         \* how many ids the remote store has assigned so far
    cache,          \* localStorage[LOCAL_STORAGE_KEY]: the stored text, or null
    display,        \* children of booksContainer, in document order
    loadingHidden,  \* loadingMessage.classList contains 'hidden'
    form,           \* values of the title, author, year and genre inputs
    booted,         \* DOMContentLoaded has fired
    handlers,       \* the async handler invocations awaiting a response
    last            \* the step taken last

vars == <<remote, issued, cache, display, loadingHidden, form, booted, handlers, last>>

(***************************************************************************)
(* Bounds of the model.                                                    *)
(***************************************************************************)
\* ids the remote store can assign; also the longest list
MaxIds == 2
\* handler invocations that can await a response at the same time
MaxInFlight == 2

IdNames == <<"1", "2", "3", "4">>
Titles == {"A", "B"}

Min(a, b) == IF a < b THEN a ELSE b

BookIds == {IdNames[i] : i \in 1..Min(MaxIds, Len(IdNames))}
Slots == 1..MaxInFlight

(***************************************************************************)
(* Book records and lists of them.                                         *)
(***************************************************************************)
Book(id, title) ==
    [id |-> id, title |-> title, author |-> "X", year |-> 1999, genre |-> "Unknown"]

RECURSIVE ListsOver(_, _)
\* every list of at most n books with pairwise distinct ids drawn from ids
ListsOver(ids, n) ==
    IF n = 0 \/ ids = {} THEN {<<>>}
    ELSE {<<>>} \cup
         UNION {{<<Book(i, t)>> \o rest : rest \in ListsOver(ids \ {i}, n - 1)} :
                    i \in ids, t \in Titles}

IdsOf(books) == [i \in 1..Len(books) |-> books[i].id]

IdSet(books) == {books[i].id : i \in 1..Len(books)}

(***************************************************************************)
(* localStorage.  A stored value is text; JSON.stringify and JSON.parse    *)
(* convert between lists and text, and text that is not JSON does not      *)
(* parse.  getItem returns null for a key that is not set.                 *)
(***************************************************************************)
NullText == [kind |-> "null"]

Garbage == [kind |-> "garbage"]

Stringify(books) == [kind |-> "json", val |-> books]

\* if (cachedBooksJSON): null is falsy, stored text is truthy
Truthy(text) == text.kind # "null"

\* JSON.parse(text) returns rather than throws
Parses(text) == text.kind = "json"

Parse(text) == text.val

(***************************************************************************)
(* The DOM under booksContainer.  The markup puts the loading message      *)
(* inside the container, so assigning innerHTML removes it from the page.  *)
(***************************************************************************)
LoadingEl == [tag |-> "loading"]

EmptyMsg == [tag |-> "empty"]

ErrorMsg(reason) == [tag |-> "error", reason |-> reason]

createBookCard(book) ==
    [tag |-> "card", bookId |-> book.id, title |-> book.title,
     author |-> book.author, year |-> book.year,
     genre |-> IF book.genre = "" THEN "N/A" ELSE book.genre]

renderBooks(booksToRender) ==
    IF Len(booksToRender) = 0
    THEN <<EmptyMsg>>
    ELSE [i \in 1..Len(booksToRender) |-> createBookCard(booksToRender[i])]

IsCard(el) == el.tag = "card"

\* the ids of the book cards on the page, in document order
DisplayedIds(children) ==
    LET cards == SelectSeq(children, IsCard)
    IN [i \in 1..Len(cards) |-> cards[i].bookId]

\* mutant: the whole container is cleared
RemoveCard_ClearsContainer(children, bookId) == <<>>

\* bookCardElement.remove() for the card that carries bookId
RemoveCard(children, bookId) ==
    SelectSeq(children, LAMBDA el : ~(IsCard(el) /\ el.bookId = bookId))

\* the loading message is in the page and not hidden
LoadingShown == loadingHidden = FALSE /\ \E i \in 1..Len(display) : display[i] = LoadingEl

(***************************************************************************)
(* Handler invocations.  net is the state of the invocation's request:     *)
(* "sent", then "ok" (2xx, body holds the JSON) or "err" (non-2xx).        *)
(***************************************************************************)
Idle == [op |-> "idle"]

InFlight(s) == handlers[s].op # "idle"

\* the model bounds the invocations that await a response at the same time; a
\* new one takes the lowest free slot
HasFreeSlot == \E s \in Slots : ~InFlight(s)

FreeSlot == CHOOSE s \in Slots : ~InFlight(s) /\ \A t \in 1..(s - 1) : InFlight(t)

\* a delete handler holds a reference to the card that was clicked; the
\* reference no longer points into the page once the page was re-rendered
Detached(h) == IF h.op = "delete" THEN [h EXCEPT !.attached = FALSE] ELSE h

\* what last records of a step: which step it was, the invocation that took it
\* (with its local variables) and the text of the alert() it raised
Step(ev, h, alert) == [ev |-> ev, h |-> h, alert |-> alert]

(***************************************************************************)
(* The form.  Input values are strings; trim() and parseInt(_, 10) are     *)
(* modelled on the values the model types.                                 *)
(***************************************************************************)
FormReset == [title |-> "", author |-> "", year |-> "", genre |-> ""]

FormInputs ==
    { [title |-> " B ", author |-> "X", year |-> "1999.5", genre |-> " "],
      [title |-> " ",   author |-> "X", year |-> "1999",   genre |-> ""],
      [title |-> "B",   author |-> " ", year |-> "1999",   genre |-> ""],
      [title |-> "B",   author |-> "X", year |-> "",       genre |-> ""] }

Trim(str) ==
    CASE str = " "   -> ""
      [] str = " B " -> "B"
      [] OTHER       -> str

NaN == [nan |-> TRUE]

\* parseInt reads the longest leading run of digits; none gives NaN
ParseInt(str) ==
    CASE str = "1999"   -> [nan |-> FALSE, n |-> 1999]
      [] str = "1999.5" -> [nan |-> FALSE, n |-> 1999]
      [] OTHER          -> NaN

\* mutant: the author is not checked
FailsValidation_NoAuthor(title, author, year) == title = "" \/ year.nan

\* !title || !author || isNaN(year) || year === null
FailsValidation(title, author, year) == title = "" \/ author = "" \/ year.nan

NewBook(title, author, year, genre) ==
    [title |-> title, author |-> author, year |-> year.n,
     genre |-> IF genre = "" THEN "Unknown" ELSE genre]

(***************************************************************************)
(* fetchAndDisplayBooks                                                    *)
(***************************************************************************)
\* mutant: the comparison of ids is left out
areBooksDifferent_LengthOnly(freshBooks, cachedBooks) ==
    Len(freshBooks) # Len(cachedBooks)

areBooksDifferent(freshBooks, cachedBooks) ==
    \/ Len(freshBooks) # Len(cachedBooks)
    \/ \E index \in 1..Len(freshBooks) :
           /\ index <= Len(cachedBooks)
           /\ freshBooks[index].id # cachedBooks[index].id

\* mutant: the fresh list is used only when nothing was stored
UpdatesFromFresh_OnlyWithoutCache(freshBooks, cachedBooks, cachedBooksJSON) ==
    ~Truthy(cachedBooksJSON)

\* mutant: the fresh list is always rendered and stored
UpdatesFromFresh_Always(freshBooks, cachedBooks, cachedBooksJSON) == TRUE

\* if (areBooksDifferent || !cachedBooksJSON)
UpdatesFromFresh(freshBooks, cachedBooks, cachedBooksJSON) ==
    areBooksDifferent(freshBooks, cachedBooks) \/ ~Truthy(cachedBooksJSON)

\* mutant: the test for a missing cache value is negated
ShowsLoadError_WrongNegation(cachedBooks, cachedBooksJSON) ==
    Truthy(cachedBooksJSON) /\ Len(cachedBooks) = 0

\* if (!cachedBooksJSON || cachedBooks.length === 0), in the catch block
ShowsLoadError(cachedBooks, cachedBooksJSON) ==
    ~Truthy(cachedBooksJSON) \/ Len(cachedBooks) = 0

\* mutant: a cache value that parses is read but not rendered
LoaderStart_NoCacheRender(s, awaited) ==
    LET cachedBooksJSON == cache
        loaded == Truthy(cachedBooksJSON) /\ Parses(cachedBooksJSON)
        cachedBooks == IF loaded THEN Parse(cachedBooksJSON) ELSE <<>>
        run == [op |-> "load", net |-> "sent", body |-> <<>>,
                cachedBooksJSON |-> cachedBooksJSON,
                cachedBooks |-> cachedBooks, awaited |-> awaited]
    IN  /\ cache' = IF Truthy(cachedBooksJSON) /\ ~loaded THEN NullText ELSE cache
        /\ display' = IF ~Truthy(cachedBooksJSON) THEN <<>> ELSE display
        /\ loadingHidden' = IF ~Truthy(cachedBooksJSON) THEN FALSE ELSE loadingHidden
        /\ handlers' = [t \in Slots |->
                           IF t = s THEN run
                           ELSE IF ~Truthy(cachedBooksJSON) THEN Detached(handlers[t])
                           ELSE handlers[t]]

\* The synchronous part, up to the fetch: read the cache, render it or show
\* the loading message, send the GET.  awaited is TRUE when
\* handleBookFormSubmit awaits this run.
LoaderStart(s, awaited) ==
    LET cachedBooksJSON == cache
        loaded == Truthy(cachedBooksJSON) /\ Parses(cachedBooksJSON)
        cachedBooks == IF loaded THEN Parse(cachedBooksJSON) ELSE <<>>
        rewritten == loaded \/ ~Truthy(cachedBooksJSON)
        run == [op |-> "load", net |-> "sent", body |-> <<>>,
                cachedBooksJSON |-> cachedBooksJSON,
                cachedBooks |-> cachedBooks, awaited |-> awaited]
    IN  /\ cache' = IF Truthy(cachedBooksJSON) /\ ~loaded THEN NullText ELSE cache
        /\ display' = IF loaded THEN renderBooks(cachedBooks)
                      ELSE IF ~Truthy(cachedBooksJSON) THEN <<>>
                      ELSE display
        /\ loadingHidden' = IF loaded THEN TRUE
                            ELSE IF ~Truthy(cachedBooksJSON) THEN FALSE
                            ELSE loadingHidden
        /\ handlers' = [t \in Slots |->
                           IF t = s THEN run
                           ELSE IF rewritten THEN Detached(handlers[t])
                           ELSE handlers[t]]

\* document.addEventListener('DOMContentLoaded', fetchAndDisplayBooks)
DOMContentLoaded ==
    /\ ~booted
    /\ booted' = TRUE
    /\ LoaderStart(FreeSlot, FALSE)
    /\ last' = Step("DOMContentLoaded", Idle, "none")
    /\ UNCHANGED <<remote, issued, form>>

\* mutant: the fresh list is rendered but not stored
LoaderOk_NoStore(s) ==
    LET h == handlers[s]
        freshBooks == h.body
        update == UpdatesFromFresh(freshBooks, h.cachedBooks, h.cachedBooksJSON)
    IN  /\ h.op = "load"
        /\ h.net = "ok"
        /\ display' = IF update THEN renderBooks(freshBooks) ELSE display
        /\ loadingHidden' = TRUE
        /\ form' = IF h.awaited THEN FormReset ELSE form
        /\ handlers' = [t \in Slots |->
                           IF t = s THEN Idle
                           ELSE IF update THEN Detached(handlers[t])
                           ELSE handlers[t]]
        /\ last' = Step("LoaderOk", h, "none")
        /\ UNCHANGED <<remote, issued, cache, booted>>

\* The response is 2xx and its JSON is read: compare, re-render and store if
\* different, hide the loading message.  A run awaited by handleBookFormSubmit
\* returns into it, and the form is reset in the same turn of the event loop.
LoaderOk(s) ==
    LET h == handlers[s]
        freshBooks == h.body
        update == UpdatesFromFresh(freshBooks, h.cachedBooks, h.cachedBooksJSON)
    IN  /\ h.op = "load"
        /\ h.net = "ok"
        /\ display' = IF update THEN renderBooks(freshBooks) ELSE display
        /\ cache' = IF update THEN Stringify(freshBooks) ELSE cache
        /\ loadingHidden' = TRUE
        /\ form' = IF h.awaited THEN FormReset ELSE form
        /\ handlers' = [t \in Slots |->
                           IF t = s THEN Idle
                           ELSE IF update THEN Detached(handlers[t])
                           ELSE handlers[t]]
        /\ last' = Step("LoaderOk", h, "none")
        /\ UNCHANGED <<remote, issued, booted>>

\* what error.message says
FailureReason(h) == IF h.net = "err" THEN "HTTP error" ELSE "Failed to fetch"

\* mutant: the catch block sends the GET again
LoaderFail_Retries(s) ==
    LET h == handlers[s]
        shows == ShowsLoadError(h.cachedBooks, h.cachedBooksJSON)
    IN  /\ h.op = "load"
        /\ loadingHidden' = TRUE
        /\ display' = IF shows THEN <<ErrorMsg(FailureReason(h))>> ELSE display
        /\ handlers' = [t \in Slots |->
                           IF t = s THEN [h EXCEPT !.net = "sent", !.body = <<>>]
                           ELSE IF shows THEN Detached(handlers[t])
                           ELSE handlers[t]]
        /\ last' = Step("LoaderFail", h, "none")
        /\ UNCHANGED <<remote, issued, cache, form, booted>>

\* mutant: the catch block leaves the loading message as it is
LoaderFail_KeepsLoading(s) ==
    LET h == handlers[s]
        shows == ShowsLoadError(h.cachedBooks, h.cachedBooksJSON)
    IN  /\ h.op = "load"
        /\ display' = IF shows THEN <<ErrorMsg(FailureReason(h))>> ELSE display
        /\ form' = IF h.awaited THEN FormReset ELSE form
        /\ handlers' = [t \in Slots |->
                           IF t = s THEN Idle
                           ELSE IF shows THEN Detached(handlers[t])
                           ELSE handlers[t]]
        /\ last' = Step("LoaderFail", h, "none")
        /\ UNCHANGED <<remote, issued, cache, loadingHidden, booted>>

\* The fetch rejects (the network fails, whether or not the remote store
\* has answered) or the response is not 2xx: the catch block.
LoaderFail(s) ==
    LET h == handlers[s]
        shows == ShowsLoadError(h.cachedBooks, h.cachedBooksJSON)
    IN  /\ h.op = "load"
        /\ loadingHidden' = TRUE
        /\ display' = IF shows THEN <<ErrorMsg(FailureReason(h))>> ELSE display
        /\ form' = IF h.awaited THEN FormReset ELSE form
        /\ handlers' = [t \in Slots |->
                           IF t = s THEN Idle
                           ELSE IF shows THEN Detached(handlers[t])
                           ELSE handlers[t]]
        /\ last' = Step("LoaderFail", h, "none")
        /\ UNCHANGED <<remote, issued, cache, booted>>

(***************************************************************************)
(* handleBookFormSubmit                                                    *)
(***************************************************************************)
\* The submit event, with the values the user typed: validate, then POST.
handleBookFormSubmit(inputs) ==
    LET title == Trim(inputs.title)
        author == Trim(inputs.author)
        year == ParseInt(inputs.year)
        genre == Trim(inputs.genre)
    IN  /\ booted
        /\ form' = inputs
        /\ IF FailsValidation(title, author, year)
           THEN /\ handlers' = handlers
                /\ last' = Step("SubmitRejected", Idle, "Please fill in all required fields")
           ELSE /\ HasFreeSlot
                /\ handlers' = [handlers EXCEPT ![FreeSlot] =
                        [op |-> "create", net |-> "sent", body |-> <<>>,
                         newBook |-> NewBook(title, author, year, genre)]]
                /\ last' = Step("SubmitSent", Idle, "none")
        /\ UNCHANGED <<remote, issued, cache, display, loadingHidden, booted>>

\* mutant: the form is reset before fetchAndDisplayBooks() is awaited
CreateOk_ResetsFirst(s) ==
    LET h == handlers[s]
    IN  /\ h.op = "create"
        /\ h.net = "ok"
        /\ LoaderStart(s, TRUE)
        /\ form' = FormReset
        /\ last' = Step("CreateOk", h, "none")
        /\ UNCHANGED <<remote, issued, booted>>

\* The POST is answered 2xx: await fetchAndDisplayBooks(), whose synchronous
\* part runs at once.
CreateOk(s) ==
    LET h == handlers[s]
    IN  /\ h.op = "create"
        /\ h.net = "ok"
        /\ LoaderStart(s, TRUE)
        /\ last' = Step("CreateOk", h, "none")
        /\ UNCHANGED <<remote, issued, form, booted>>

\* mutant: the form is reset on the failure path too
CreateFail_ResetsForm(s) ==
    LET h == handlers[s]
    IN  /\ h.op = "create"
        /\ handlers' = [handlers EXCEPT ![s] = Idle]
        /\ form' = FormReset
        /\ last' = Step("CreateFail", h, "Failed to add book")
        /\ UNCHANGED <<remote, issued, cache, display, loadingHidden, booted>>

\* The POST rejects or is answered non-2xx: the catch block.
CreateFail(s) ==
    LET h == handlers[s]
    IN  /\ h.op = "create"
        /\ handlers' = [handlers EXCEPT ![s] = Idle]
        /\ last' = Step("CreateFail", h, "Failed to add book")
        /\ UNCHANGED <<remote, issued, cache, display, loadingHidden, form, booted>>

(***************************************************************************)
(* The click listener of booksContainer, and deleteBook                    *)
(***************************************************************************)
\* mutant: the listener calls deleteBook whatever the user answers
ClickDelete_IgnoresAnswer(i, confirmed) ==
    /\ booted
    /\ i \in 1..Len(display)
    /\ IsCard(display[i])
    /\ HasFreeSlot
    /\ handlers' = [handlers EXCEPT ![FreeSlot] =
            [op |-> "delete", net |-> "sent", body |-> <<>>,
             bookId |-> display[i].bookId, attached |-> TRUE]]
    /\ last' = Step(IF confirmed THEN "DeleteSent" ELSE "DeleteDeclined", Idle, "none")
    /\ UNCHANGED <<remote, issued, cache, display, loadingHidden, form, booted>>

\* A click on the delete button of the i-th child, and the user's answer to
\* confirm(): deleteBook(bookId, bookCard) sends the DELETE.  The event of
\* the step records the answer: "DeleteSent" accepted, "DeleteDeclined" not.
ClickDelete(i, confirmed) ==
    /\ booted
    /\ i \in 1..Len(display)
    /\ IsCard(display[i])
    /\ IF confirmed
       THEN /\ HasFreeSlot
            /\ handlers' = [handlers EXCEPT ![FreeSlot] =
                    [op |-> "delete", net |-> "sent", body |-> <<>>,
                     bookId |-> display[i].bookId, attached |-> TRUE]]
            /\ last' = Step("DeleteSent", Idle, "none")
       ELSE /\ handlers' = handlers
            /\ last' = Step("DeleteDeclined", Idle, "none")
    /\ UNCHANGED <<remote, issued, cache, display, loadingHidden, form, booted>>

\* mutant: the filter keeps the record it should drop
FilterOut_Inverted(currentBooks, bookId) ==
    SelectSeq(currentBooks, LAMBDA book : book.id = bookId)

\* currentBooks.filter(book => book.id !== bookId)
FilterOut(currentBooks, bookId) ==
    SelectSeq(currentBooks, LAMBDA book : book.id # bookId)

\* mutant: the handler never writes the empty-state message
DeleteOk_NoEmptyState(s) ==
    LET h == handlers[s]
        removed == IF h.attached THEN RemoveCard(display, h.bookId) ELSE display
        currentBooksJSON == cache
        throws == Truthy(currentBooksJSON) /\ ~Parses(currentBooksJSON)
    IN  /\ h.op = "delete"
        /\ h.net = "ok"
        /\ display' = removed
        /\ cache' = IF Truthy(currentBooksJSON) /\ ~throws
                    THEN Stringify(FilterOut(Parse(currentBooksJSON), h.bookId))
                    ELSE cache
        /\ handlers' = [t \in Slots |->
                           IF t = s THEN Idle
                           ELSE IF h.attached /\ handlers[t].op = "delete"
                                   /\ handlers[t].bookId = h.bookId
                           THEN Detached(handlers[t])
                           ELSE handlers[t]]
        /\ last' = Step("DeleteOk", h, IF throws THEN "Failed to delete book" ELSE "none")
        /\ UNCHANGED <<remote, issued, loadingHidden, form, booted>>

\* mutant: the card is removed but the cache is not written
DeleteOk_KeepsCache(s) ==
    LET h == handlers[s]
        removed == IF h.attached THEN RemoveCard(display, h.bookId) ELSE display
        emptied == Len(removed) = 0
    IN  /\ h.op = "delete"
        /\ h.net = "ok"
        /\ display' = IF emptied THEN <<EmptyMsg>> ELSE removed
        /\ handlers' = [t \in Slots |->
                           IF t = s THEN Idle
                           ELSE IF emptied \/ (h.attached /\ handlers[t].op = "delete"
                                                /\ handlers[t].bookId = h.bookId)
                           THEN Detached(handlers[t])
                           ELSE handlers[t]]
        /\ last' = Step("DeleteOk", h, "none")
        /\ UNCHANGED <<remote, issued, cache, loadingHidden, form, booted>>

\* The DELETE is answered 2xx: remove the card, filter the cache, show the
\* empty-state message when the container has no child left.  JSON.parse of a
\* stored value that does not parse throws into the catch block.  Removing
\* the card leaves every other pending delete of that card with a reference
\* to an element that is no longer in the page.
DeleteOk(s) ==
    LET h == handlers[s]
        removed == IF h.attached THEN RemoveCard(display, h.bookId) ELSE display
        currentBooksJSON == cache
        throws == Truthy(currentBooksJSON) /\ ~Parses(currentBooksJSON)
        emptied == ~throws /\ Len(removed) = 0
    IN  /\ h.op = "delete"
        /\ h.net = "ok"
        /\ display' = IF emptied THEN <<EmptyMsg>> ELSE removed
        /\ cache' = IF Truthy(currentBooksJSON) /\ ~throws
                    THEN Stringify(FilterOut(Parse(currentBooksJSON), h.bookId))
                    ELSE cache
        /\ handlers' = [t \in Slots |->
                           IF t = s THEN Idle
                           ELSE IF emptied \/ (h.attached /\ handlers[t].op = "delete"
                                                /\ handlers[t].bookId = h.bookId)
                           THEN Detached(handlers[t])
                           ELSE handlers[t]]
        /\ last' = Step("DeleteOk", h, IF throws THEN "Failed to delete book" ELSE "none")
        /\ UNCHANGED <<remote, issued, loadingHidden, form, booted>>

\* mutant: the catch block takes the card out of the page all the same
DeleteFail_RemovesCard(s) ==
    LET h == handlers[s]
    IN  /\ h.op = "delete"
        /\ display' = RemoveCard(display, h.bookId)
        /\ handlers' = [handlers EXCEPT ![s] = Idle]
        /\ last' = Step("DeleteFail", h, "Failed to delete book")
        /\ UNCHANGED <<remote, issued, cache, loadingHidden, form, booted>>

\* The DELETE rejects or is answered non-2xx: the catch block.
DeleteFail(s) ==
    LET h == handlers[s]
    IN  /\ h.op = "delete"
        /\ handlers' = [handlers EXCEPT ![s] = Idle]
        /\ last' = Step("DeleteFail", h, "Failed to delete book")
        /\ UNCHANGED <<remote, issued, cache, display, loadingHidden, form, booted>>

(***************************************************************************)
(* The remote store, at its interface: GET, POST and DELETE on the list.   *)
(* It assigns every new record an id it has not assigned before, and may   *)
(* answer any request with a non-2xx status.                               *)
(***************************************************************************)
Answer(s, net, body) == [handlers EXCEPT ![s].net = net, ![s].body = body]

ServerGet(s) ==
    /\ handlers[s].op = "load"
    /\ handlers[s].net = "sent"
    /\ handlers' = Answer(s, "ok", remote)
    /\ last' = Step("ServerGet", Idle, "none")
    /\ UNCHANGED <<remote, issued, cache, display, loadingHidden, form, booted>>

ServerPost(s) ==
    LET h == handlers[s] IN
    /\ h.op = "create"
    /\ h.net = "sent"
    /\ issued < Min(MaxIds, Len(IdNames))
    /\ LET addedBook == [id |-> IdNames[issued + 1], title |-> h.newBook.title,
                         author |-> h.newBook.author, year |-> h.newBook.year,
                         genre |-> h.newBook.genre]
       IN  /\ remote' = Append(remote, addedBook)
           /\ handlers' = Answer(s, "ok", <<addedBook>>)
    /\ issued' = issued + 1
    /\ last' = Step("ServerPost", Idle, "none")
    /\ UNCHANGED <<cache, display, loadingHidden, form, booted>>

ServerDelete(s) ==
    LET h == handlers[s] IN
    /\ h.op = "delete"
    /\ h.net = "sent"
    /\ remote' = FilterOut(remote, h.bookId)
    /\ handlers' = Answer(s, "ok", <<>>)
    /\ last' = Step("ServerDelete", Idle, "none")
    /\ UNCHANGED <<issued, cache, display, loadingHidden, form, booted>>

ServerReject(s) ==
    /\ InFlight(s)
    /\ handlers[s].net = "sent"
    /\ handlers' = Answer(s, "err", <<>>)
    /\ last' = Step("ServerReject", Idle, "none")
    /\ UNCHANGED <<remote, issued, cache, display, loadingHidden, form, booted>>

(***************************************************************************)
(* The page as it is loaded: the markup of booksContainer, an empty form,  *)
(* and whatever an earlier visit left in localStorage; the remote store    *)
(* holds any list of the records it has assigned ids to.                   *)
(***************************************************************************)
Init ==
    /\ issued \in 0..Min(MaxIds, Len(IdNames))
    /\ remote \in ListsOver({IdNames[i] : i \in 1..issued}, issued)
    /\ cache \in {NullText, Garbage} \cup
                 {Stringify(l) : l \in ListsOver({IdNames[i] : i \in 1..issued}, issued)}
    /\ display = <<LoadingEl>>
    /\ loadingHidden = FALSE
    /\ form = FormReset
    /\ booted = FALSE
    /\ handlers = [s \in Slots |-> Idle]
    /\ last = Step("none", Idle, "none")

Next ==
    \/ DOMContentLoaded
    \/ \E s \in Slots : LoaderOk(s)
    \/ \E s \in Slots : LoaderFail(s)
    \/ \E inputs \in FormInputs : handleBookFormSubmit(inputs)
    \/ \E s \in Slots : CreateOk(s)
    \/ \E s \in Slots : CreateFail(s)
    \/ \E i \in 1..MaxIds, confirmed \in BOOLEAN : ClickDelete(i, confirmed)
    \/ \E s \in Slots : DeleteOk(s)
    \/ \E s \in Slots : DeleteFail(s)
    \/ \E s \in Slots : ServerGet(s)
    \/ \E s \in Slots : ServerPost(s)
    \/ \E s \in Slots : ServerDelete(s)
    \/ \E s \in Slots : ServerReject(s)

Spec == Init /\ [][Next]_vars

\* nothing awaits a response
Quiescent == \A s \in Slots : ~InFlight(s)

(***************************************************************************)
(* The same program when the user starts no handler while another one      *)
(* awaits its response: handlers do not overlap.                           *)
(***************************************************************************)
NextSeq ==
    \/ DOMContentLoaded
    \/ \E s \in Slots : LoaderOk(s)
    \/ \E s \in Slots : LoaderFail(s)
    \/ Quiescent /\ \E inputs \in FormInputs : handleBookFormSubmit(inputs)
    \/ \E s \in Slots : CreateOk(s)
    \/ \E s \in Slots : CreateFail(s)
    \/ Quiescent /\ \E i \in 1..MaxIds, confirmed \in BOOLEAN : ClickDelete(i, confirmed)
    \/ \E s \in Slots : DeleteOk(s)
    \/ \E s \in Slots : DeleteFail(s)
    \/ \E s \in Slots : ServerGet(s)
    \/ \E s \in Slots : ServerPost(s)
    \/ \E s \in Slots : ServerDelete(s)
    \/ \E s \in Slots : ServerReject(s)

SpecSeq == Init /\ [][NextSeq]_vars

(***************************************************************************)
(* Vocabulary of the properties.                                           *)
(***************************************************************************)
\* two lists differ in length, or in the id at some position
ListsDiffer(C, R) ==
    Len(C) # Len(R) \/ \E i \in (DOMAIN C) \cap (DOMAIN R) : C[i].id # R[i].id

RECURSIVE Minus(_, _)
\* list with every record of id x removed, the others in their order
Minus(list, x) ==
    IF list = <<>> THEN <<>>
    ELSE IF Head(list).id = x THEN Minus(Tail(list), x)
    ELSE <<Head(list)>> \o Minus(Tail(list), x)

\* the step just taken was the success continuation of a Loader run
LoaderSucceeded == last.ev = "LoaderOk"

\* the step just taken was the catch block of a Loader run
LoaderFailed == last.ev = "LoaderFail"

(***************************************************************************)
(* C1: when a Loader run's fetch succeeds with a list R that differs from  *)
(* the list C the run read from the cache in length or in the id at some   *)
(* position, then as the run finishes the display is the rendering of R    *)
(* and the cache holds R.                                                  *)
(***************************************************************************)
C1_DifferentListReplaces ==
    (LoaderSucceeded /\ ListsDiffer(last.h.cachedBooks, last.h.body))
        => (display = renderBooks(last.h.body) /\ cache = Stringify(last.h.body))

\* the scenario of the specification: one cached record, two remote records
C1_Witness ==
    /\ LoaderSucceeded
    /\ Parses(last.h.cachedBooksJSON)
    /\ IdsOf(last.h.cachedBooks) = <<"1">>
    /\ IdsOf(last.h.body) = <<"1", "2">>
    /\ DisplayedIds(display) = <<"1", "2">>

(***************************************************************************)
(* C2: when a Loader run that loaded a valid cache snapshot C receives a   *)
(* fresh list R of the same length with the same id at every position,     *)
(* its success continuation neither re-renders nor writes the cache: the   *)
(* display, the cache and the card references held by delete handlers are  *)
(* what they were, whatever the other fields of the records of R are.      *)
(***************************************************************************)
C2_SameIdsLeaveDisplayAndCache ==
    [][(/\ last'.ev = "LoaderOk"
        /\ Parses(last'.h.cachedBooksJSON)
        /\ ~ListsDiffer(last'.h.cachedBooks, last'.h.body))
       => (/\ display' = display
           /\ cache' = cache
           /\ \A t \in Slots : handlers[t].op = "delete" => handlers'[t] = handlers[t])]_vars

\* same ids, another title: display and cache still hold the cached record
C2_Witness ==
    /\ LoaderSucceeded
    /\ Parses(last.h.cachedBooksJSON)
    /\ Len(last.h.body) > 0
    /\ ~ListsDiffer(last.h.cachedBooks, last.h.body)
    /\ last.h.cachedBooks # last.h.body
    /\ display = renderBooks(last.h.cachedBooks)
    /\ cache = Stringify(last.h.cachedBooks)

(***************************************************************************)
(* C3: the success continuation of a delete of id X leaves in the cache    *)
(* the snapshot it found there with every record of id X removed and every *)
(* other record kept, in the same order (and leaves an unset cache unset). *)
(***************************************************************************)
C3_DeleteFiltersCache ==
    [][last'.ev = "DeleteOk"
       => cache' = IF Parses(cache)
                   THEN Stringify(Minus(Parse(cache), last'.h.bookId))
                   ELSE cache]_vars

\* a delete removed one of two cached records and kept the other
C3_Witness ==
    /\ last.ev = "DeleteOk"
    /\ Parses(cache)
    /\ Len(Parse(cache)) = 1
    /\ Parse(cache)[1].id # last.h.bookId
    /\ last.h.bookId \notin IdSet(remote)

\* the step just taken ended a create handler whose POST had succeeded: the
\* Loader run it awaited settled and the handler returned
CreateFinished == last.ev \in {"LoaderOk", "LoaderFail"} /\ last.h.awaited

(***************************************************************************)
(* C4, as claimed: when a create handler whose POST succeeded finishes,    *)
(* the display and the cache equal the list the remote store holds.        *)
(***************************************************************************)
C4_Original ==
    CreateFinished => (display = renderBooks(remote) /\ cache = Stringify(remote))

(***************************************************************************)
(* C4, amended: when a create handler whose POST succeeded finishes after  *)
(* the GET of its Loader run succeeded with a list R, the display and the  *)
(* cache equal R and the form is cleared, unless R has the length and the  *)
(* positional ids of the list the run read from a stored cache value.      *)
(***************************************************************************)
C4_CreateResynchronises ==
    (/\ CreateFinished
     /\ LoaderSucceeded
     /\ \/ ListsDiffer(last.h.cachedBooks, last.h.body)
        \/ last.h.cachedBooksJSON = NullText)
        => (/\ display = renderBooks(last.h.body)
            /\ cache = Stringify(last.h.body)
            /\ form = FormReset)

\* the created record is on the page, in the cache and in the remote list
C4_Witness ==
    /\ CreateFinished
    /\ LoaderSucceeded
    /\ ListsDiffer(last.h.cachedBooks, last.h.body)
    /\ last.h.body = remote
    /\ \E i \in 1..Len(remote) : remote[i].title = "B" /\ remote[i].id \notin IdSet(last.h.cachedBooks)
    /\ display = renderBooks(remote)
    /\ cache = Stringify(remote)

(***************************************************************************)
(* C5, as claimed: once a Loader run's fetch has succeeded with the list   *)
(* the remote store still holds and nothing is in flight any more, the     *)
(* display is the rendering of the remote list.  (Nothing changes the      *)
(* display after that without a new user event, so a state where this      *)
(* fails is a state the display stays in.)                                 *)
(***************************************************************************)
C5_Original ==
    (LoaderSucceeded /\ Quiescent /\ last.h.body = remote)
        => display = renderBooks(remote)

(***************************************************************************)
(* C5, amended: when no handler overlaps another, once a Loader run's      *)
(* fetch has succeeded with the list the remote store still holds, the     *)
(* displayed records have the ids of the remote list, position by          *)
(* position; their other fields may be those of the cached records.        *)
(***************************************************************************)
C5_DisplayedIdsMatchRemote ==
    (LoaderSucceeded /\ Quiescent /\ last.h.body = remote)
        => DisplayedIds(display) = IdsOf(remote)

\* the run replaced stale cached ids by the remote ones
C5_Witness ==
    /\ LoaderSucceeded
    /\ Quiescent
    /\ last.h.body = remote
    /\ Len(remote) > 0
    /\ IdsOf(last.h.cachedBooks) # IdsOf(remote)
    /\ DisplayedIds(display) = IdsOf(remote)

(***************************************************************************)
(* C6, as claimed: when the fetch of a Loader run fails and the run had    *)
(* read a stored value that parsed (any list, the empty list included),    *)
(* the catch block leaves the display and the cache as they are and shows  *)
(* no error message.                                                       *)
(***************************************************************************)
C6_Claim ==
    [][(last'.ev = "LoaderFail" /\ Parses(last'.h.cachedBooksJSON))
       => (/\ display' = display
           /\ cache' = cache
           /\ \A i \in 1..Len(display') : display'[i].tag # "error")]_vars

(***************************************************************************)
(* C7: when the fetch of a Loader run fails and the run had found no       *)
(* stored value, the catch block replaces the content of the display by    *)
(* the error message carrying the failure reason and does not write the    *)
(* cache, so a cache that is unset stays unset.                            *)
(***************************************************************************)
C7_NoCacheFailureShowsError ==
    [][(last'.ev = "LoaderFail" /\ last'.h.cachedBooksJSON = NullText)
       => (/\ display' = <<ErrorMsg(IF last'.h.net = "err" THEN "HTTP error"
                                    ELSE "Failed to fetch")>>
           /\ cache' = cache)]_vars

\* the GET was answered non-2xx, nothing was cached: the error is on the page
C7_Witness ==
    /\ LoaderFailed
    /\ last.h.cachedBooksJSON = NullText
    /\ last.h.net = "err"
    /\ cache = NullText
    /\ display = <<ErrorMsg("HTTP error")>>

(***************************************************************************)
(* C8, as claimed: a Loader run that found a stored value that does not    *)
(* parse behaves as a run that found none: whatever list R its fetch       *)
(* returns, the empty list included, the display is rendered from R and    *)
(* the cache is overwritten with R.                                        *)
(***************************************************************************)
C8_Claim ==
    (LoaderSucceeded /\ last.h.cachedBooksJSON = Garbage)
        => (display = renderBooks(last.h.body) /\ cache = Stringify(last.h.body))

\* the submitted values do not pass: an empty title or author after trimming,
\* or a year that is no integer
Invalid(inputs) ==
    \/ Trim(inputs.title) = ""
    \/ Trim(inputs.author) = ""
    \/ ParseInt(inputs.year) = NaN

(***************************************************************************)
(* C9: a create submission with an empty title or author (after trimming)  *)
(* or a year that does not parse as an integer sends no request (no        *)
(* handler starts to await a response), changes neither the cache nor the  *)
(* display, and tells the user.                                            *)
(***************************************************************************)
C9_InvalidSubmitDoesNothing ==
    [][\A inputs \in FormInputs :
          (/\ last'.ev \in {"SubmitRejected", "SubmitSent"}
           /\ form' = inputs
           /\ Invalid(inputs))
          => (/\ handlers' = handlers
              /\ cache' = cache
              /\ display' = display
              /\ loadingHidden' = loadingHidden
              /\ remote' = remote
              /\ last'.alert # "none")]_vars

\* a title of blanks only was submitted and rejected
C9_Witness ==
    /\ last.ev = "SubmitRejected"
    /\ form.title = " "
    /\ Quiescent
    /\ Parses(cache)

(***************************************************************************)
(* C10: when the POST of a create fails (the fetch rejects or the answer   *)
(* is non-2xx), the handler alerts the user and changes nothing else: the  *)
(* cache, the display, the loading message and the form stay as they are,  *)
(* and no Loader run starts (the invocation just ends).                    *)
(***************************************************************************)
C10_FailedCreateMutatesNothing ==
    [][last'.ev = "CreateFail"
       => (/\ last'.alert # "none"
           /\ cache' = cache
           /\ display' = display
           /\ loadingHidden' = loadingHidden
           /\ form' = form
           /\ \E s \in Slots :
                  /\ handlers[s] = last'.h
                  /\ handlers' = [handlers EXCEPT ![s] = Idle])]_vars

\* the POST was answered non-2xx: the typed values are still in the form
C10_Witness ==
    /\ last.ev = "CreateFail"
    /\ last.h.net = "err"
    /\ last.alert = "Failed to add book"
    /\ form \in FormInputs
    /\ ~Invalid(form)

\* some child of the container is the card of bookId
Displays(children, bookId) ==
    \E k \in 1..Len(children) : IsCard(children[k]) /\ children[k].bookId = bookId

(***************************************************************************)
(* C11: when the DELETE of a record fails (the fetch rejects or the answer *)
(* is non-2xx), the delete handler alerts the user and leaves the display  *)
(* and the cache exactly as they were.                                     *)
(***************************************************************************)
C11_FailedDeleteMutatesNothing ==
    [][last'.ev = "DeleteFail"
       => (/\ last'.alert # "none"
           /\ display' = display
           /\ cache' = cache
           /\ loadingHidden' = loadingHidden)]_vars

\* the DELETE was answered non-2xx: the card and the cached record are still
\* there
C11_Witness ==
    /\ last.ev = "DeleteFail"
    /\ last.h.net = "err"
    /\ last.alert = "Failed to delete book"
    /\ Displays(display, last.h.bookId)
    /\ Parses(cache)
    /\ last.h.bookId \in IdSet(Parse(cache))

\* the slots of the delete handlers that await their response
PendingDeletes(hs) == {s \in Slots : hs[s].op = "delete"}

(***************************************************************************)
(* C12: a DELETE is issued only in the step in which the user accepts the  *)
(* confirmation for that record's card; when the user declines, no request *)
(* is issued and the display and the cache stay as they are.               *)
(***************************************************************************)
C12_DeleteOnlyAfterConfirm ==
    [][/\ \A s \in Slots :
              (handlers'[s].op = "delete" /\ handlers[s].op # "delete")
              => (/\ last'.ev = "DeleteSent"
                  /\ handlers'[s].net = "sent"
                  /\ Displays(display, handlers'[s].bookId))
       /\ last'.ev = "DeleteDeclined"
              => (/\ handlers' = handlers
                  /\ display' = display
                  /\ cache' = cache
                  /\ remote' = remote)]_vars

\* the user declined while a card was displayed: nothing is in flight
C12_Witness ==
    /\ last.ev = "DeleteDeclined"
    /\ PendingDeletes(handlers) = {}
    /\ DisplayedIds(display) # <<>>

\* no child of the container is a card
NoCards(children) == \A k \in 1..Len(children) : ~IsCard(children[k])

\* the step just taken was the success path of deleteBook, run to its end
DeleteSucceeded == last.ev = "DeleteOk" /\ last.alert = "none"

LoaderStarted(ev) == ev \in {"DOMContentLoaded", "CreateOk"}

(***************************************************************************)
(* C14: the step in which the fetch of a Loader run settles, with success  *)
(* or with failure, hides the loading message; and the loading message     *)
(* goes from hidden to not hidden only in a step that starts a Loader run. *)
(***************************************************************************)
C14_LoadingHiddenOnceSettled ==
    [][/\ last'.ev \in {"LoaderOk", "LoaderFail"} => loadingHidden'
       /\ (loadingHidden /\ ~loadingHidden') => LoaderStarted(last'.ev)]_vars

\* a run that started without a cache, so with the loading message not
\* hidden, has failed
C14_Witness ==
    /\ LoaderFailed
    /\ ~Truthy(last.h.cachedBooksJSON)
    /\ loadingHidden
    /\ ~LoadingShown

\* the Loader run of slot s read a cache value that parses
StartedFromCache(s) ==
    /\ handlers[s].op = "load"
    /\ Truthy(handlers[s].cachedBooksJSON)
    /\ Parses(handlers[s].cachedBooksJSON)

(***************************************************************************)
(* C15: when no other handler runs meanwhile, for as long as the fetch of  *)
(* a Loader run that started from a cache value that parses is in flight,  *)
(* the display is the rendering of that cached list and the loading        *)
(* message is hidden.                                                      *)
(***************************************************************************)
C15_CacheShownWhileFetching ==
    \A s \in Slots :
        StartedFromCache(s)
        => (/\ display = renderBooks(handlers[s].cachedBooks)
            /\ loadingHidden
            /\ ~LoadingShown)

\* the answer to the GET is on its way while the cached records are shown
C15_Witness ==
    \E s \in Slots :
        /\ StartedFromCache(s)
        /\ handlers[s].net = "ok"
        /\ Len(handlers[s].cachedBooks) > 0
        /\ DisplayedIds(display) = IdsOf(handlers[s].cachedBooks)
        /\ loadingHidden

(***************************************************************************)
(* C16, as stated: for as long as the fetch of a Loader run that started   *)
(* without a cache value, or from one that does not parse, is in flight,   *)
(* the loading message is shown and the display holds no card.             *)
(***************************************************************************)
C16_Claim ==
    \A s \in Slots :
        (handlers[s].op = "load" /\ ~StartedFromCache(s))
        => (LoadingShown /\ NoCards(display))

\* the slots whose handler has sent a GET and not yet finished
Loads(hs) == {s \in Slots : hs[s].op = "load"}

(***************************************************************************)
(* C17: a step that starts a Loader run, whatever the cache holds, sends   *)
(* exactly one GET; the step in which a fetch settles, with failure or     *)
(* with success, ends that run and sends none; no other step sends a GET,  *)
(* and a GET once answered is never sent again.                            *)
(***************************************************************************)
C17_OneGetPerRun ==
    [][/\ LoaderStarted(last'.ev)
              => \E s \in Slots \ Loads(handlers) :
                     /\ Loads(handlers') = Loads(handlers) \cup {s}
                     /\ handlers'[s].net = "sent"
       /\ last'.ev \in {"LoaderOk", "LoaderFail"}
              => \E s \in Loads(handlers) :
                     /\ handlers[s] = last'.h
                     /\ Loads(handlers') = Loads(handlers) \ {s}
       /\ ~LoaderStarted(last'.ev) /\ last'.ev \notin {"LoaderOk", "LoaderFail"}
              => Loads(handlers') = Loads(handlers)
       /\ \A s \in Loads(handlers) \cap Loads(handlers') :
              handlers'[s].net = "sent" => handlers[s].net = "sent"]_vars

\* a run that started from a cache value has failed: no GET is pending
C17_Witness ==
    /\ LoaderFailed
    /\ Truthy(last.h.cachedBooksJSON)
    /\ Loads(handlers) = {}

\* the cards of the records other than bookId, in their order
OtherCards(children, bookId) ==
    SelectSeq(children, LAMBDA el : IsCard(el) /\ el.bookId # bookId)

(***************************************************************************)
(* C18: the step that completes a successful delete of X keeps the cards   *)
(* of all other records, in their order, adds no card, sends no GET, and   *)
(* re-renders nothing: the cards that other pending deletes refer to stay  *)
(* in the page.                                                            *)
(***************************************************************************)
C18_DeleteRemovesOnlyItsCard ==
    [][(last'.ev = "DeleteOk" /\ last'.alert = "none")
       => LET X == last'.h.bookId
          IN  /\ OtherCards(display', X) = OtherCards(display, X)
              /\ Displays(display', X) => Displays(display, X)
              /\ last'.h.attached => ~Displays(display', X)
              /\ Loads(handlers') = Loads(handlers)
              /\ \A t \in Slots :
                     (handlers[t].op = "delete" /\ handlers[t].bookId # X)
                     => handlers'[t] = handlers[t]]_vars

\* one of two displayed cards was removed, the other is still displayed
C18_Witness ==
    /\ DeleteSucceeded
    /\ last.h.attached
    /\ ~Displays(display, last.h.bookId)
    /\ Len(DisplayedIds(display)) = 1
    /\ Len(display) = 1

\* the step taken settled the fetch of the Loader run that a create awaits
AwaitedRunSettled(step) == step.ev \in {"LoaderOk", "LoaderFail"} /\ step.h.awaited

(***************************************************************************)
(* C19: the form is cleared in the step in which the fetch of the Loader   *)
(* run awaited by a create settles, and in no other step: not when the     *)
(* POST is answered and the re-run starts, not when validation fails, not  *)
(* when the POST fails.                                                    *)
(***************************************************************************)
C19_FormClearedAfterRerun ==
    [][/\ AwaitedRunSettled(last') => form' = FormReset
       /\ (form' = FormReset /\ form # FormReset) => AwaitedRunSettled(last')
       /\ last'.ev \in {"CreateOk", "CreateFail"} => form' = form
       /\ last'.ev = "SubmitRejected" => form' # FormReset]_vars

\* the re-run after a create has fetched the list and the form is empty
C19_Witness ==
    /\ LoaderSucceeded
    /\ last.h.awaited
    /\ form = FormReset
    /\ Len(last.h.body) > 0

(***************************************************************************)
(* Deletes that overlap each other.  The page opens on a list of           *)
(* MaxIds + 1 records that the cache and the remote store agree on; the    *)
(* user clicks delete buttons once the startup Loader run has finished,    *)
(* without waiting for the answer to an earlier DELETE.                    *)
(***************************************************************************)
DelIds == Min(MaxIds + 1, Len(IdNames))

AllBooks == [i \in 1..DelIds |-> Book(IdNames[i], "A")]

InitDel ==
    /\ issued = DelIds
    /\ remote = AllBooks
    /\ cache = Stringify(AllBooks)
    /\ display = <<LoadingEl>>
    /\ loadingHidden = FALSE
    /\ form = FormReset
    /\ booted = FALSE
    /\ handlers = [s \in Slots |-> Idle]
    /\ last = Step("none", Idle, "none")

NextDel ==
    \/ DOMContentLoaded
    \/ \E s \in Slots : LoaderOk(s)
    \/ \E s \in Slots : LoaderFail(s)
    \/ /\ Loads(handlers) = {}
       /\ \E i \in 1..DelIds, confirmed \in BOOLEAN : ClickDelete(i, confirmed)
    \/ \E s \in Slots : DeleteOk(s)
    \/ \E s \in Slots : DeleteFail(s)
    \/ \E s \in Slots : ServerGet(s)
    \/ \E s \in Slots : ServerDelete(s)
    \/ \E s \in Slots : ServerReject(s)

SpecDel == InitDel /\ [][NextDel]_vars

(***************************************************************************)
(* C20: with deletes overlapping each other, the step that completes a     *)
(* successful delete of X reads the cache as the steps before it left it   *)
(* and writes it back without X and with every other record, in order;     *)
(* no other step changes the cache.  So when the deletes of X and of Y     *)
(* have both succeeded, in either order, the cache holds neither X nor Y   *)
(* and every other record.                                                 *)
(***************************************************************************)
C20_OverlappingDeletesLoseNothing ==
    [][/\ Parses(cache')
       /\ IF last'.ev = "DeleteOk"
          THEN Parse(cache') = Minus(Parse(cache), last'.h.bookId)
          ELSE cache' = cache]_vars

\* one delete has completed while another one, which the store has already
\* carried out, awaits its answer: the cache has lost the first record only
C20_Witness ==
    /\ DeleteSucceeded
    /\ \E t \in PendingDeletes(handlers) :
           /\ handlers[t].net = "ok"
           /\ handlers[t].bookId # last.h.bookId
           /\ handlers[t].bookId \in IdSet(Parse(cache))
    /\ last.h.bookId \notin IdSet(Parse(cache))
    /\ Len(Parse(cache)) = DelIds - 1
    /\ Len(remote) = DelIds - 2

(***************************************************************************)
(* C21, as stated: right after a delete of X has completed successfully,   *)
(* no child of the container is a card of X, whatever other handlers did   *)
(* between the click and the answer.                                       *)
(***************************************************************************)
C21_Claim ==
    DeleteSucceeded => ~Displays(display, last.h.bookId)

(***************************************************************************)
(* The runs in which every DELETE is answered 2xx: the remote store does   *)
(* not refuse a DELETE and the network does not lose its answer.  In these *)
(* runs a record that has left the remote list, with no DELETE for it      *)
(* pending, is a record whose delete has completed successfully.           *)
(***************************************************************************)
NextAnswered ==
    \/ DOMContentLoaded
    \/ \E s \in Slots : LoaderOk(s)
    \/ \E s \in Slots : LoaderFail(s)
    \/ \E inputs \in FormInputs : handleBookFormSubmit(inputs)
    \/ \E s \in Slots : CreateOk(s)
    \/ \E s \in Slots : CreateFail(s)
    \/ \E i \in 1..MaxIds, confirmed \in BOOLEAN : ClickDelete(i, confirmed)
    \/ \E s \in Slots : DeleteOk(s)
    \/ \E s \in Slots : ServerGet(s)
    \/ \E s \in Slots : ServerPost(s)
    \/ \E s \in Slots : ServerDelete(s)
    \/ \E s \in Slots : handlers[s].op # "delete" /\ ServerReject(s)

SpecAnswered == Init /\ [][NextAnswered]_vars

\* the delete of x completed successfully after the remote store produced
\* the list that the Loader run just finished has fetched
DeletedDuringRun(x) ==
    /\ LoaderSucceeded
    /\ x \in IdSet(last.h.body)
    /\ x \notin IdSet(remote)
    /\ \A t \in PendingDeletes(handlers) : handlers[t].bookId # x

(***************************************************************************)
(* C22, as stated: when a delete of X succeeded while the fetch of a       *)
(* Loader run was in flight, and the fetched list was produced before the  *)
(* remote store processed the delete, then once both have finished neither *)
(* the cache nor the display holds a record X.                             *)
(***************************************************************************)
C22_Claim ==
    \A x \in BookIds :
        DeletedDuringRun(x)
        => (/\ ~Displays(display, x)
            /\ (Truthy(cache) /\ Parses(cache)) => x \notin IdSet(Parse(cache)))

(***************************************************************************)
(* C23, as stated: in every state after startup in which no handler is in  *)
(* flight and the cache holds a list, the ids of the cards in the display, *)
(* in their order, are the ids of the cached list, in their order.         *)
(***************************************************************************)
C23_Claim ==
    (booted /\ Quiescent /\ Truthy(cache) /\ Parses(cache))
        => DisplayedIds(display) = IdsOf(Parse(cache))

(***************************************************************************)
(* C24: whenever the display holds a card, the cache holds a list that     *)
(* parses; the same is true while a DELETE is pending and right after a    *)
(* delete has completed, so deleteBook always finds a cache value to       *)
(* filter, never throws on parsing it, and leaves a cache value behind.    *)
(***************************************************************************)
C24_CardsImplyCache ==
    /\ (~NoCards(display) \/ PendingDeletes(handlers) # {} \/ last.ev = "DeleteOk")
           => (Truthy(cache) /\ Parses(cache))
    /\ last.ev = "DeleteOk" => last.alert = "none"

\* a delete has completed with another card still displayed and no Loader
\* run in flight: the cache holds a list
C24_Witness ==
    /\ DeleteSucceeded
    /\ ~NoCards(display)
    /\ Truthy(cache)
    /\ Parses(cache)
    /\ Len(Parse(cache)) >= 1
    /\ Loads(handlers) = {}

====
